---------------------------- MODULE Spec2Model ----------------------------
(***************************************************************************)
(* Model of the detections seeding pipeline of kpi-builder-sprint.         *)
(*                                                                         *)
(*   SpecPg    src/frontend/seed_postgres.py   (batch loader, PostgreSQL)  *)
(*   SpecLite  src/backend/data/seed_sqlite.py and src/seed_sqlite.py      *)
(*             (pandas pipeline, SQLite, replace mode), run twice          *)
(*                                                                         *)
(* Numeric epoch values do not fit TLC's integers, so a numeric timestamp  *)
(* v is written as its offset from the cutoff in half seconds:             *)
(* d = 2 * (v - 10^10).  d = 0 is exactly 10^10, d = 1 is 10^10 + 0.5,     *)
(* d = -2 is 10^10 - 1.                                                    *)
(***************************************************************************)
EXTENDS Integers, Sequences, FiniteSets, TLC

VARIABLES
    pc,          \* position of main()
    failure,     \* kind of the exception that ended the run ("none" so far)
    failedIn,    \* value of pc when the exception was raised
    csv,         \* the input file: [exists, readable, header, rows]
    tableExists, \* store: the detections table exists
    table,       \* store: committed rows of detections, in insertion order
    hasPK,       \* store: detections carries PRIMARY KEY (id, t)
    indexes,     \* store: names of the indexes on detections
    table0,      \* the store's rows when the run started
    exists0,     \* tableExists when the run started
    log,         \* statements executed against detections, in order
    pos,         \* seed_postgres: rows the csv reader has handed out
    batch,       \* seed_postgres: load_csv_data's batch list
    total_rows,  \* seed_postgres: load_csv_data's total_rows
    commits,     \* seed_postgres: sizes of the batches committed so far
    variant,     \* SpecLite: "backend" or "minimal" script
    df,          \* SpecLite: the dataframe, [cols, rows, dtype]
    run,         \* SpecLite: 1 in the first run, 2 in the second
    after1       \* SpecLite: the store as the first run left it

vars == <<pc, failure, failedIn, csv, tableExists, table, hasPK, indexes,
          table0, exists0, log, pos, batch, total_rows, commits,
          variant, df, run, after1>>

pgVars == <<pos, batch, total_rows, commits>>
liteVars == <<variant, df, run, after1>>

-----------------------------------------------------------------------------
(* Bounds of the model *)

\* load_csv_data's batch_size (1000 in the source), scaled down
batch_size == 2
\* longest input of seed_postgres
MaxPgRows == 5
\* longest input of the SQLite scripts
MaxLiteRows == 2

-----------------------------------------------------------------------------
(* Input cells *)

\* a timestamp cell: an integer literal, a float literal, an empty cell, an
\* ISO date string, or a string that is no date
IntTs(d) == [k |-> "int", d |-> d]
FloatTs(d) == [k |-> "float", d |-> d]
MissingTs == [k |-> "missing", d |-> 0]
DateTs(d) == [k |-> "date", d |-> d]
JunkTs == [k |-> "junk", d |-> 0]

Row(id, cls, ts, x, y) == [id |-> id, cls |-> cls, ts |-> ts, x |-> x, y |-> y]

\* the strings float() accepts, among the cells of the model
IsFloat(s) == s \in {"1.0", "2.0", "3.0"}

\* float(s) of such a string
FloatOf(s) == CASE s = "1.0" -> 1 [] s = "2.0" -> 2 [] OTHER -> 3

SeqsUpTo(S, n) == UNION {[1..m -> S] : m \in 0..n}

Range(s) == {s[i] : i \in 1..Len(s)}

Count(e, s) == Cardinality({i \in 1..Len(s) : s[i] = e})

\* the header of public/work-package-raw-data.csv
FullHeader ==
    <<"type", "timestamp", "id", "x", "y", "heading", "area", "vest", "speed", "with_object">>

NoFile == [exists |-> FALSE, readable |-> FALSE, header |-> <<>>, rows |-> <<>>]

UnreadableFile == [exists |-> TRUE, readable |-> FALSE, header |-> <<>>, rows |-> <<>>]

File(h, rs) == [exists |-> TRUE, readable |-> TRUE, header |-> h, rows |-> rs]

-----------------------------------------------------------------------------
(* The store *)

PgIndexNames ==
    {"idx_detections_t", "idx_detections_class", "idx_detections_id_t", "idx_detections_area"}

\* a row left in the store by an earlier run
OldRow == [id |-> "old", class |-> "ped", t |-> DateTs(1), x |-> 1, y |-> 1]

-----------------------------------------------------------------------------
(* seed_postgres.py *)

PgRowPool ==
    { Row("a1", "ped", DateTs(3), "1.0", "2.0"),
      Row("a2", "veh", DateTs(4), "3.0", "2.0"),
      Row("a3", "veh", DateTs(5), "bad", "3.0"),
      Row("a4", "ped", JunkTs, "2.0", "1.0") }

PgHeaders ==
    { FullHeader,
      <<"label", "timestamp", "id", "x", "y", "heading", "area", "vest", "speed", "with_object">> }

PgInputs ==
    {NoFile, UnreadableFile}
        \cup {File(h, rs) : h \in PgHeaders, rs \in SeqsUpTo(PgRowPool, MaxPgRows)}

\* the exception the tuple expression of load_csv_data raises on a row, in the
\* order its items are evaluated ("none": the row converts).  The optional
\* cells heading, area, vest, speed, with_object are taken to be empty.
PgRowError(header, row) ==
    CASE \E c \in {"id", "type", "timestamp", "x"} : c \notin Range(header) -> "KeyError"
      [] ~IsFloat(row.x) -> "ValueError"
      [] "y" \notin Range(header) -> "KeyError"
      [] ~IsFloat(row.y) -> "ValueError"
      [] \E c \in {"heading", "area", "vest", "speed", "with_object"} :
            c \notin Range(header) -> "KeyError"
      [] OTHER -> "none"

\* the tuple load_csv_data appends to the batch
PgConvert(row) ==
    [id |-> row.id, class |-> row.cls, t |-> row.ts, x |-> FloatOf(row.x), y |-> FloatOf(row.y)]

\* PostgreSQL accepts the text as a TIMESTAMP WITH TIME ZONE
PgAcceptsTimestamp(ts) == ts.k = "date"

\* the rows of the batch execute_batch has inserted when it returns or raises:
\* all of them, or those before the first one the server refuses
RECURSIVE PgInserted(_)
PgInserted(b) ==
    IF b = <<>> \/ ~PgAcceptsTimestamp(Head(b).t) THEN <<>>
    ELSE <<Head(b)>> \o PgInserted(Tail(b))

\* conn.commit(): the rows of the open transaction become table rows
Commit(tbl, pending) == tbl \o pending

\* a handler that would commit the open transaction before exiting
ExitCommitsPending(tbl, pending) == tbl \o pending

\* sys.exit(1) in main's handler with a transaction open: the server rolls the
\* uncommitted rows back
ExitWithoutCommit(tbl, pending) == tbl

\* len(batch) > batch_size
BatchFullOffByOne(b) == Len(b) > batch_size

\* len(batch) >= batch_size
BatchFull(b) == Len(b) >= batch_size

Fail(kind) ==
    /\ pc' = "failed"
    /\ failure' = kind
    /\ failedIn' = pc

InitPg ==
    /\ pc = "start"
    /\ failure = "none"
    /\ failedIn = "none"
    /\ csv \in PgInputs
    /\ \E st \in { [e |-> FALSE, t |-> <<>>, i |-> {}],
                   [e |-> TRUE, t |-> <<>>, i |-> PgIndexNames],
                   [e |-> TRUE, t |-> <<OldRow>>, i |-> PgIndexNames],
                   [e |-> TRUE, t |-> <<OldRow, OldRow>>, i |-> {}] } :
          /\ tableExists = st.e
          /\ table = st.t
          /\ indexes = st.i
    /\ hasPK = FALSE
    /\ table0 = table
    /\ exists0 = tableExists
    /\ log = <<>>
    /\ pos = 0
    /\ batch = <<>>
    /\ total_rows = 0
    /\ commits = <<>>
    /\ variant = "postgres"
    /\ df = [cols |-> <<>>, rows |-> <<>>]
    /\ run = 1
    /\ after1 = [exists |-> FALSE, rows |-> <<>>]

\* main: os.path.exists(csv_path)
PgCheckFile ==
    /\ pc = "start"
    /\ IF csv.exists
         THEN pc' = "connect" /\ UNCHANGED <<failure, failedIn>>
         ELSE Fail("InputError")
    /\ UNCHANGED <<csv, tableExists, table, hasPK, indexes, table0, exists0, log>>
    /\ UNCHANGED <<pgVars, liteVars>>

\* main: get_db_connection
get_db_connection ==
    /\ pc = "connect"
    /\ \E up \in BOOLEAN :
          IF up THEN pc' = "check" /\ UNCHANGED <<failure, failedIn>>
          ELSE Fail("StoreError")
    /\ UNCHANGED <<csv, tableExists, table, hasPK, indexes, table0, exists0, log>>
    /\ UNCHANGED <<pgVars, liteVars>>

\* main: SELECT COUNT(*), the prompt, TRUNCATE
PgCheckExisting ==
    /\ pc = "check"
    /\ IF ~tableExists
         THEN /\ Fail("UndefinedTable")
              /\ log' = Append(log, "count")
              /\ UNCHANGED table
         ELSE IF Len(table) > 0
           THEN \E response \in {"yes", "no"} :
                  IF response = "yes"
                  THEN /\ table' = <<>>
                       /\ log' = log \o <<"count", "truncate">>
                       /\ pc' = "create"
                       /\ UNCHANGED <<failure, failedIn>>
                  ELSE /\ pc' = "skipped"
                       /\ log' = Append(log, "count")
                       /\ UNCHANGED <<table, failure, failedIn>>
           ELSE /\ pc' = "create"
                /\ log' = Append(log, "count")
                /\ UNCHANGED <<table, failure, failedIn>>
    /\ UNCHANGED <<csv, tableExists, hasPK, indexes, table0, exists0>>
    /\ UNCHANGED <<pgVars, liteVars>>

\* create_table: CREATE TABLE IF NOT EXISTS, CREATE INDEX IF NOT EXISTS, commit
create_table ==
    /\ pc = "create"
    /\ log' = Append(log, "create")
    /\ tableExists' = TRUE
    /\ table' = IF tableExists THEN table ELSE <<>>
    /\ indexes' = indexes \cup PgIndexNames
    /\ pc' = "open"
    /\ UNCHANGED <<failure, failedIn, csv, hasPK, table0, exists0>>
    /\ UNCHANGED <<pgVars, liteVars>>

\* load_csv_data: open(csv_path), the reader, the locals
load_csv_data_open ==
    /\ pc = "open"
    /\ IF csv.readable
         THEN pc' = "load" /\ UNCHANGED <<failure, failedIn>>
         ELSE Fail("InputError")
    /\ pos' = 0
    /\ batch' = <<>>
    /\ total_rows' = 0
    /\ UNCHANGED <<csv, tableExists, table, hasPK, indexes, table0, exists0, log>>
    /\ UNCHANGED <<commits, liteVars>>

\* execute_batch and conn.commit() on batch b: the server may refuse a row, and
\* the connection may drop before the commit is acknowledged
execute_batch_commit(b, next) ==
    \E up \in BOOLEAN :
        /\ log' = Append(log, "insert")
        /\ IF up /\ PgInserted(b) = b
             THEN /\ table' = Commit(table, PgInserted(b))
                  /\ total_rows' = total_rows + Len(b)
                  /\ commits' = Append(commits, Len(b))
                  /\ batch' = <<>>
                  /\ pc' = next
                  /\ UNCHANGED <<failure, failedIn>>
             ELSE /\ table' = ExitWithoutCommit(table, PgInserted(b))
                  /\ batch' = b
                  /\ Fail("StoreError")
                  /\ UNCHANGED <<total_rows, commits>>

\* load_csv_data: one iteration of `for row in reader`
load_csv_data_row ==
    /\ pc = "load"
    /\ pos < Len(csv.rows)
    /\ pos' = pos + 1
    /\ LET row == csv.rows[pos + 1]
           err == PgRowError(csv.header, row)
           b == Append(batch, PgConvert(row))
       IN  IF err # "none"
             THEN /\ Fail(IF err = "KeyError" THEN "SchemaError" ELSE "RowError")
                  /\ table' = ExitWithoutCommit(table, <<>>)
                  /\ UNCHANGED <<batch, total_rows, commits, log>>
             ELSE IF BatchFull(b)
               THEN execute_batch_commit(b, "load")
               ELSE /\ batch' = b
                    /\ UNCHANGED <<pc, failure, failedIn, table, total_rows, commits, log>>
    /\ UNCHANGED <<csv, tableExists, hasPK, indexes, table0, exists0, liteVars>>

\* load_csv_data: the reader is exhausted; insert the remaining rows, return
load_csv_data_rest ==
    /\ pc = "load"
    /\ pos = Len(csv.rows)
    /\ IF batch # <<>>
         THEN execute_batch_commit(batch, "verify")
         ELSE /\ pc' = "verify"
              /\ UNCHANGED <<failure, failedIn, table, batch, total_rows, commits, log>>
    /\ UNCHANGED <<pos, csv, tableExists, hasPK, indexes, table0, exists0, liteVars>>

\* main: the three statistics queries, conn.close()
PgVerify ==
    /\ pc = "verify"
    /\ log' = Append(log, "stats")
    /\ pc' = "done"
    /\ UNCHANGED <<failure, failedIn, csv, tableExists, table, hasPK, indexes, table0, exists0>>
    /\ UNCHANGED <<pgVars, liteVars>>

NextPg ==
    \/ PgCheckFile
    \/ get_db_connection
    \/ PgCheckExisting
    \/ create_table
    \/ load_csv_data_open
    \/ load_csv_data_row
    \/ load_csv_data_rest
    \/ PgVerify

SpecPg == InitPg /\ [][NextPg]_vars

-----------------------------------------------------------------------------
(* seed_sqlite.py: backend/data/seed_sqlite.py ("backend") and the short    *)
(* script at the top of the repository ("minimal")                          *)

LiteRowPool ==
    { Row("a1", "ped", IntTs(-2), "1.0", "2.0"),
      Row("a2", "veh", IntTs(0), "3.0", "2.0"),
      Row("a2", "veh", IntTs(2), "2.0", "2.0"),
      Row("a1", "ped", FloatTs(1), "1.0", "1.0"),
      Row("a3", "ped", MissingTs, "1.0", "1.0"),
      Row("a1", "ped", DateTs(5), "1.0", "2.0"),
      Row("a3", "veh", JunkTs, "2.0", "3.0"),
      Row("a2", "veh", DateTs(7), "bad", "3.0"),
      Row("a1", "ped", IntTs(-2), "", "2.0") }

LiteHeaders ==
    { FullHeader,
      <<"label", "t", "id", "x", "y", "heading", "area", "vest", "speed">>,
      <<"type", "label", "timestamp", "id", "x", "y", "heading", "area", "vest", "speed">>,
      <<"Class_Name", "time", "id", "x", "y", "heading", "vest", "speed">>,
      <<"type", "id", "x", "y", "heading", "area", "vest", "speed">>,
      <<"class", "timestamp", "id", "y", "heading", "area", "vest", "speed">> }

LiteInputs ==
    {NoFile, UnreadableFile}
        \cup {File(h, rs) : h \in LiteHeaders, rs \in SeqsUpTo(LiteRowPool, MaxLiteRows)}

\* a stored row of the SQLite table; x, y and t may be NULL (nan, NaT) there
LiteOldRow ==
    [id |-> "old", class |-> "ped", t |-> [k |-> "utc", d |-> 1],
     x |-> [nan |-> FALSE, v |-> 1], y |-> [nan |-> FALSE, v |-> 1]]

BackendIndexNames ==
    {"idx_detections_t", "idx_detections_class", "idx_detections_area",
     "idx_detections_vest", "idx_detections_speed"}

MinimalIndexNames == {"idx_detections_t", "idx_detections_class"}

\* infer_timestamp_col: the first of t, timestamp, time among the columns
infer_timestamp_col(cols) ==
    CASE "t" \in Range(cols) -> "t"
      [] "timestamp" \in Range(cols) -> "timestamp"
      [] "time" \in Range(cols) -> "time"
      [] OTHER -> "KeyError"

\* the dtype read_csv gives the timestamp column
TsDtype(rows) ==
    CASE rows = <<>> -> "object"
      [] \E i \in 1..Len(rows) : rows[i].ts.k \in {"date", "junk"} -> "object"
      [] \E i \in 1..Len(rows) : rows[i].ts.k \in {"float", "missing"} -> "float64"
      [] OTHER -> "int64"

\* astype('int64') of a positive value drops its fraction
AsInt64(d) == d - (d % 2)

SetMax(S) == CHOOSE m \in S : \A n \in S : n <= m

SetMin(S) == CHOOSE m \in S : \A n \in S : m <= n

\* 'ms' if df[ts_col].astype('int64').max() > 10_000_000_000 else 's'
TsUnit(rows) ==
    IF SetMax({AsInt64(rows[i].ts.d) : i \in 1..Len(rows)}) > 0 THEN "ms" ELSE "s"

\* astype('int64') raises on a column that holds a missing value
TsCastFails(rows) ==
    /\ TsDtype(rows) = "float64"
    /\ \E i \in 1..Len(rows) : rows[i].ts.k = "missing"

NaT == [k |-> "NaT", d |-> 0]

\* the column df['t'] as pd.to_datetime builds it
NormalizeTs(rows, cell) ==
    IF TsDtype(rows) \in {"int64", "float64"}
    THEN [k |-> TsUnit(rows), d |-> cell.d]
    ELSE IF cell.k = "date" THEN [k |-> "utc", d |-> cell.d] ELSE NaT

\* c.lower(), on the column names of the model
Lower(c) == IF c = "Class_Name" THEN "class_name" ELSE c

ClassAliases(v) ==
    IF v = "backend" THEN {"class_name", "label", "type"} ELSE {"class_name", "label"}

\* df.rename(columns=rename_map): every column whose lower-cased name is an
\* alias is named class
RenameColumns(v, cols) ==
    [i \in 1..Len(cols) |-> IF Lower(cols[i]) \in ClassAliases(v) THEN "class" ELSE cols[i]]

\* the columns after df['t'] = ... and the renaming
ResolvedColumns(v, cols) ==
    RenameColumns(v, IF "t" \in Range(cols) THEN cols ELSE Append(cols, "t"))

\* pd.to_numeric(s, errors='coerce')
ToNumeric(s) == IF IsFloat(s) THEN [nan |-> FALSE, v |-> FloatOf(s)] ELSE [nan |-> TRUE, v |-> 0]

CleanRow(rows, r) ==
    [id |-> r.id, class |-> r.cls, t |-> NormalizeTs(rows, r.ts),
     x |-> ToNumeric(r.x), y |-> ToNumeric(r.y)]

\* the row survives df.dropna(subset=['x', 'y']) and df.dropna(subset=['t'])
Kept(r) == ~r.x.nan /\ ~r.y.nan /\ r.t.k # "NaT"

\* process_dataframe, and the same steps of the minimal script's main (which
\* drops no row): [err, cols, rows]
process_dataframe(v, cols, rows) ==
    LET failed(e) == [err |-> e, cols |-> <<>>, rows |-> <<>>]
        out == ResolvedColumns(v, cols)
        clean == [i \in 1..Len(rows) |-> CleanRow(rows, rows[i])]
    IN  CASE infer_timestamp_col(cols) = "KeyError" -> failed("SchemaError")
          [] TsCastFails(rows) -> failed("RowError")
          [] \E c \in {"id", "class", "x", "y", "t"} : c \notin Range(out) -> failed("SchemaError")
          [] OTHER ->
               [err |-> "none", cols |-> out,
                rows |-> IF v = "backend" THEN SelectSeq(clean, Kept) ELSE clean]

\* the column list main selects before to_sql
Selected(v) ==
    IF v = "backend"
    THEN {"id", "class", "t", "x", "y", "heading", "vest", "speed", "area"}
    ELSE {"id", "class", "t", "x", "y", "heading", "vest", "speed"}

\* the columns of the frame after process_dataframe's area handling
WithArea(v, cols) ==
    IF v = "backend" /\ "area" \notin Range(cols) THEN Append(cols, "area") ELSE cols

\* to_sql(if_exists='append')
ToSqlAppend(existing, rows) == existing \o rows

\* to_sql(if_exists='replace'): the table's rows afterwards
ToSqlReplace(existing, rows) == rows

InitLite ==
    /\ pc = "start"
    /\ failure = "none"
    /\ failedIn = "none"
    /\ csv \in LiteInputs
    /\ variant \in {"backend", "minimal"}
    /\ \E st \in { [e |-> FALSE, t |-> <<>>, pk |-> FALSE, i |-> {}],
                   [e |-> TRUE, t |-> <<LiteOldRow>>, pk |-> TRUE, i |-> BackendIndexNames],
                   [e |-> TRUE, t |-> <<LiteOldRow, LiteOldRow>>, pk |-> FALSE,
                    i |-> MinimalIndexNames] } :
          /\ tableExists = st.e
          /\ table = st.t
          /\ hasPK = st.pk
          /\ indexes = st.i
    /\ table0 = table
    /\ exists0 = tableExists
    /\ log = <<>>
    /\ pos = 0
    /\ batch = <<>>
    /\ total_rows = 0
    /\ commits = <<>>
    /\ df = [cols |-> <<>>, rows |-> <<>>]
    /\ run = 1
    /\ after1 = [exists |-> FALSE, rows |-> <<>>]

storeVars == <<tableExists, table, hasPK, indexes>>

\* backend main: validate_csv_file
validate_csv_file ==
    /\ pc = "start"
    /\ variant = "backend"
    /\ IF csv.exists /\ csv.readable
         THEN pc' = "read" /\ UNCHANGED <<failure, failedIn>>
         ELSE Fail("InputError")
    /\ UNCHANGED <<csv, storeVars, table0, exists0, log, pgVars, liteVars>>

\* pd.read_csv: the frame holds the file's columns and rows
read_csv ==
    /\ \/ pc = "read" /\ variant = "backend"
       \/ pc = "start" /\ variant = "minimal"
    /\ IF csv.exists /\ csv.readable
         THEN /\ df' = [cols |-> csv.header, rows |-> csv.rows]
              /\ pc' = "process"
              /\ UNCHANGED <<failure, failedIn>>
         ELSE Fail("InputError") /\ UNCHANGED df
    /\ UNCHANGED <<csv, storeVars, table0, exists0, log, pgVars, variant, run, after1>>

\* process_dataframe (backend), main lines 17-39 (minimal)
LiteProcess ==
    /\ pc = "process"
    /\ LET res == process_dataframe(variant, df.cols, df.rows)
       IN  IF res.err = "none"
             THEN /\ df' = [cols |-> WithArea(variant, res.cols), rows |-> res.rows]
                  /\ pc' = "connect"
                  /\ UNCHANGED <<failure, failedIn>>
             ELSE Fail(res.err) /\ UNCHANGED df
    /\ UNCHANGED <<csv, storeVars, table0, exists0, log, pgVars, variant, run, after1>>

\* sqlite3.connect(DB_PATH)
LiteConnect ==
    /\ pc = "connect"
    /\ pc' = IF variant = "backend" THEN "schema" ELSE "tosql"
    /\ UNCHANGED <<failure, failedIn, csv, storeVars, table0, exists0, log, pgVars, liteVars>>

\* create_schema: CREATE TABLE IF NOT EXISTS ... PRIMARY KEY (id, t)
create_schema ==
    /\ pc = "schema"
    /\ log' = Append(log, "create")
    /\ tableExists' = TRUE
    /\ hasPK' = IF tableExists THEN hasPK ELSE TRUE
    /\ table' = IF tableExists THEN table ELSE <<>>
    /\ pc' = "indexes"
    /\ UNCHANGED <<failure, failedIn, csv, indexes, table0, exists0, pgVars, liteVars>>

\* create_indexes: five CREATE INDEX IF NOT EXISTS
create_indexes ==
    /\ pc = "indexes"
    /\ indexes' = indexes \cup BackendIndexNames
    /\ pc' = "tosql"
    /\ UNCHANGED <<failure, failedIn, csv, tableExists, table, hasPK, table0, exists0, log>>
    /\ UNCHANGED <<pgVars, liteVars>>

\* df[[...]].to_sql('detections', con, if_exists='replace', index=False): the
\* selection raises on a missing column; to_sql drops the table with its key
\* and indexes, creates it from the frame's columns, which fails on two
\* columns of one name, and inserts the rows
to_sql ==
    /\ pc = "tosql"
    /\ IF \E c \in Selected(variant) : c \notin Range(df.cols)
         THEN Fail("SchemaError") /\ UNCHANGED <<storeVars, log>>
         ELSE IF \E c \in Selected(variant) : Count(c, df.cols) > 1
           THEN /\ Fail("StoreError")
                /\ tableExists' = FALSE
                /\ table' = <<>>
                /\ hasPK' = FALSE
                /\ indexes' = {}
                /\ log' = IF tableExists THEN Append(log, "drop") ELSE log
           ELSE /\ tableExists' = TRUE
                /\ table' = ToSqlReplace(table, df.rows)
                /\ hasPK' = FALSE
                /\ indexes' = {}
                /\ log' = (IF tableExists THEN Append(log, "drop") ELSE log)
                              \o <<"create", "insert">>
                /\ pc' = IF variant = "backend" THEN "verify" ELSE "addindexes"
                /\ UNCHANGED <<failure, failedIn>>
    /\ UNCHANGED <<csv, table0, exists0, pgVars, liteVars>>

\* backend main: the COUNT(*) and GROUP BY class queries, con.close()
LiteVerify ==
    /\ pc = "verify"
    /\ log' = Append(log, "stats")
    /\ pc' = "done"
    /\ UNCHANGED <<failure, failedIn, csv, storeVars, table0, exists0, pgVars, liteVars>>

\* minimal main: the two CREATE INDEX IF NOT EXISTS, commit, close
LiteAddIndexes ==
    /\ pc = "addindexes"
    /\ indexes' = indexes \cup MinimalIndexNames
    /\ pc' = "done"
    /\ UNCHANGED <<failure, failedIn, csv, tableExists, table, hasPK, table0, exists0, log>>
    /\ UNCHANGED <<pgVars, liteVars>>

\* the script is started again on the same input and the same store
LiteRunAgain ==
    /\ pc \in {"done", "failed"}
    /\ run = 1
    /\ run' = 2
    /\ after1' = [exists |-> tableExists, rows |-> table]
    /\ pc' = "start"
    /\ failure' = "none"
    /\ failedIn' = "none"
    /\ df' = [cols |-> <<>>, rows |-> <<>>]
    /\ log' = <<>>
    /\ table0' = table
    /\ exists0' = tableExists
    /\ UNCHANGED <<csv, storeVars, pgVars, variant>>

NextLite ==
    \/ validate_csv_file
    \/ read_csv
    \/ LiteProcess
    \/ LiteConnect
    \/ create_schema
    \/ create_indexes
    \/ to_sql
    \/ LiteVerify
    \/ LiteAddIndexes
    \/ LiteRunAgain

SpecLite == InitLite /\ [][NextLite]_vars

-----------------------------------------------------------------------------
(* Claims about seed_postgres.py, checked under SpecPg *)

\* the rows load_csv_data builds from the first n input rows
PgLoaded(n) == [i \in 1..n |-> PgConvert(csv.rows[i])]

\* C1: when loading fails (a row that does not convert, a refused insert, a
\* lost connection), the table holds exactly the rows of the batches committed
\* before, all of them and in full, and the rows read but not persisted are at
\* most one batch.
C1_FailedLoadKeepsCommittedBatches ==
    (pc = "failed" /\ failedIn = "load") =>
        LET k == Len(commits)
        IN  /\ \A i \in 1..k : commits[i] = batch_size
            /\ k * batch_size <= pos
            /\ table = PgLoaded(k * batch_size)
            /\ pos - k * batch_size <= batch_size

\* C1's case: a batch was committed, and a later batch failed at a row the
\* server refused after it had taken the rows before it
C1_Witness ==
    /\ pc = "failed"
    /\ failedIn = "load"
    /\ failure = "StoreError"
    /\ Len(commits) >= 1
    /\ PgInserted(batch) # <<>>
    /\ PgInserted(batch) # batch

\* C2: a run that fails before Loading (input file missing or unreadable, a
\* required column that cannot be resolved) leaves the detections table as it
\* was before the run.
C2_EarlyFailureLeavesStore ==
    (pc = "failed" /\ failure \in {"InputError", "SchemaError"}) =>
        /\ table = table0
        /\ tableExists = exists0
        /\ \A i \in 1..Len(log) : log[i] \notin {"truncate", "create", "insert"}

\* a row is valid: x and y are numbers and the timestamp parses
PgRowValid(row) == IsFloat(row.x) /\ IsFloat(row.y) /\ PgAcceptsTimestamp(row.ts)

\* C4: a row with an invalid x, y or timestamp is dropped and never makes the
\* run fail, and a successful run persists exactly the valid rows.
C4_InvalidRowsDroppedNeverFatal ==
    /\ pc = "failed" => failure # "RowError"
    /\ pc = "done" =>
          table = [i \in 1..Len(SelectSeq(csv.rows, PgRowValid)) |->
                      PgConvert(SelectSeq(csv.rows, PgRowValid)[i])]

\* C9: the schema creation step is the first statement a run executes against
\* detections, so a run against a store without the table does not fail on it.
C9_SchemaCreatedFirst ==
    /\ log # <<>> => Head(log) = "create"
    /\ failure # "UndefinedTable"

\* C10: a load that completes commits ceil(N / batch_size) batches, all but the
\* last of batch_size rows and the last of at most batch_size; the table holds
\* every input row once, in input order, and total_rows is N.
C10_BatchesCoverInput ==
    pc \in {"verify", "done"} =>
        LET N == Len(csv.rows)
            n == Len(commits)
        IN  /\ n = (N + batch_size - 1) \div batch_size
            /\ \A i \in 1..n :
                  /\ commits[i] >= 1
                  /\ commits[i] <= batch_size
                  /\ i < n => commits[i] = batch_size
            /\ table = PgLoaded(N)
            /\ total_rows = N

\* C10's case: a completed load of full batches and a final partial one
C10_Witness ==
    /\ pc = "done"
    /\ Len(commits) >= 3
    /\ commits[Len(commits)] < batch_size
    /\ Len(table) = Len(csv.rows)

-----------------------------------------------------------------------------
(* Claims about the SQLite scripts, checked under SpecLite *)

\* the figures the verification queries report: the row count, the count per
\* class, the number of classes, the least and the greatest timestamp
Stats(rows) ==
    LET classes == {rows[i].class : i \in 1..Len(rows)}
        times == {rows[i].t.d : i \in {j \in 1..Len(rows) : rows[j].t.k # "NaT"}}
    IN  [count |-> Len(rows),
         perClass |-> [c \in classes |-> Cardinality({i \in 1..Len(rows) : rows[i].class = c})],
         classes |-> Cardinality(classes),
         tmin |-> IF times = {} THEN <<>> ELSE <<SetMin(times)>>,
         tmax |-> IF times = {} THEN <<>> ELSE <<SetMax(times)>>]

\* C3: after a successful run of the backend script no two rows of detections
\* share their (id, t).
C3_NoDuplicateKeys ==
    (variant = "backend" /\ pc = "done") =>
        \A i, j \in 1..Len(table) :
            (table[i].id = table[j].id /\ table[i].t = table[j].t) => i = j

\* C5: once the second run on the same input has ended, the table has the row
\* count and the statistics it had when the first run ended.
C5_SecondRunSameStatistics ==
    (run = 2 /\ pc \in {"done", "failed"}) =>
        /\ tableExists = after1.exists
        /\ Stats(table) = Stats(after1.rows)

\* C5's case: both runs succeeded and loaded two different rows
C5_Witness ==
    /\ run = 2
    /\ pc = "done"
    /\ Len(table) = 2
    /\ table[1] # table[2]
    /\ after1.rows = table

\* the greatest value of a numeric timestamp column is above 10^10
MaxAboveCutoff(rows) == SetMax({rows[i].ts.d : i \in 1..Len(rows)}) > 0

\* C6: a numeric timestamp column is read as milliseconds when its maximum is
\* greater than 10^10 and as seconds otherwise, every row alike.
C6_UnitFromColumnMaximum ==
    (pc = "connect" /\ TsDtype(csv.rows) \in {"int64", "float64"}) =>
        \A i \in 1..Len(df.rows) :
            df.rows[i].t.k = IF MaxAboveCutoff(csv.rows) THEN "ms" ELSE "s"

\* C7: when the header holds class_name, label or type (in any case), the
\* resolved frame has exactly one column named class.
C7_OneClassColumn ==
    (pc = "connect"
        /\ \E i \in 1..Len(csv.header) : Lower(csv.header[i]) \in {"class_name", "label", "type"})
        => Count("class", df.cols) = 1

\* C8: after a successful run detections carries the indexes on t, class and
\* area and a key or index covering (id, t).
C8_RequiredIndexesPresent ==
    pc = "done" =>
        /\ {"idx_detections_t", "idx_detections_class", "idx_detections_area"} \subseteq indexes
        /\ hasPK \/ "idx_detections_id_t" \in indexes

=============================================================================
